---- MODULE Spec2Model ----
(***************************************************************************)
(* Real-time room / session / broadcast layer of the chat backend:         *)
(* SocketService (handshake middleware, connection registry, join_room,    *)
(* leave_room, typing, send_message, disconnect, presence updates), the    *)
(* HTTP message path (authenticateToken gate, validators, MessageService   *)
(* sendMessage, updateMessage, deleteMessage), the HTTP room path          *)
(* (RoomService create, update, delete, join, leave) and App.start.        *)
(***************************************************************************)
EXTENDS Naturals, Integers, Sequences, FiniteSets, TLC

\* ------------------------------------------------------------------------
\* Bounds of the model
\* ------------------------------------------------------------------------
MaxConns == 2
MaxInFlight == 1
MaxRoomInFlight == 2

Users == {"u1", "u2"}
Rooms == {"r1", "r2"}
Conns == 1..MaxConns

NoUser == "nouser"
NoConn == 0

\* Message documents: the ids the store can hold at once.  A new document
\* gets an id that no state refers to.
MessageIds == {"m1"}

\* sendMessageValidation / updateMessageValidation: content of 1..2000
\* characters, messageType absent or one of text, image, file.  The content
\* of a message is represented by its length.
MinContentLength == 1
MaxContentLength == 2000
MessageTypes == {"text", "image", "file"}
ValidInput == [len |-> 1, messageType |-> "text"]
MessageInputs ==
  {ValidInput,
   [len |-> MaxContentLength, messageType |-> "absent"],
   [len |-> 1, messageType |-> "image"],
   [len |-> 0, messageType |-> "text"],
   [len |-> MaxContentLength + 1, messageType |-> "file"],
   [len |-> 1, messageType |-> "video"]}
UpdateInputs ==
  {ValidInput,
   [len |-> MaxContentLength, messageType |-> "absent"],
   [len |-> MaxContentLength + 1, messageType |-> "absent"]}
NoInput == [len |-> 0, messageType |-> "absent"]

\* ------------------------------------------------------------------------
\* Bearer tokens.  A token is what the client presents; kind says how
\* jwt.verify treats it, userId is the payload's userId.
\* ------------------------------------------------------------------------
NoToken == [kind |-> "missing", userId |-> NoUser]
ValidTokens == [kind : {"valid"}, userId : Users]
Tokens == {NoToken} \cup ValidTokens \cup [kind : {"expired", "badsig"}, userId : {"u1"}]

\* jwt.verify(token, secret): returns the payload of a well-formed,
\* signature-valid, unexpired token and throws otherwise.
JwtVerifyAcceptsExpired(tok) == tok.kind \in {"valid", "expired"}
JwtVerify(tok) == tok.kind = "valid"

VARIABLES
  appPc,          \* position of App.start, or how the process ended
  life,           \* the three clients' connections, what App.start installed,
                  \* the registered signal handlers and those that are running
  rabbitUp,       \* RabbitMQClient.channel # null
  ioInit,         \* SocketService.io # null
  users,          \* persisted User documents
  rooms,          \* persisted Room documents: room -> [exists, owner, members]
  messages,       \* persisted Message documents: id -> [exists, sender, room, content, isEdited]
  conn,           \* socket -> [state, userId, tok]
  nextConn,       \* id of the next socket the framework creates
  connectedUsers, \* SocketService.connectedUsers: set of <<userId, socketId>>
  groups,         \* socket.io adapter rooms: room id -> set of sockets
  wsPending,      \* send_message handlers suspended at the await, in order
  httpPending,    \* MessageService.sendMessage calls suspended at message.save()
  roomPending,    \* RoomService.joinRoom / leaveRoom calls suspended at room.save()
  statusOps,      \* updateUserOnlineStatus calls in flight
  redisKeys,      \* user:{id}:online keys stored in the key-value broker
  out             \* what the last handler step emitted, published and answered

vars == <<life, appPc, rabbitUp, ioInit, users, rooms, messages, conn, nextConn, connectedUsers,
          groups, wsPending, httpPending, roomPending, statusOps, redisKeys, out>>

\* ------------------------------------------------------------------------
\* Helpers
\* ------------------------------------------------------------------------
SeqToSet(s) == {s[i] : i \in 1..Len(s)}

\* Array.prototype.includes on room.members
Includes(members, u) == u \in SeqToSet(members)

\* Array.prototype.filter(memberId => memberId !== userId)
RECURSIVE FilterOut(_, _)
FilterOut(members, u) ==
  IF members = <<>> THEN <<>>
  ELSE IF Head(members) = u THEN FilterOut(Tail(members), u)
       ELSE <<Head(members)>> \o FilterOut(Tail(members), u)

\* Map.prototype.set / delete / has / get on connectedUsers
MapSetKeepsOld(m, k, v) == m \cup {<<k, v>>}
MapSet(m, k, v) == {p \in m : p[1] # k} \cup {<<k, v>>}
MapDelete(m, k) == {p \in m : p[1] # k}
MapHas(m, k) == \E p \in m : p[1] = k
MapGet(m, k) == IF MapHas(m, k) THEN (CHOOSE p \in m : p[1] = k)[2] ELSE NoConn
MapValues(m) == {p[2] : p \in m}

\* socket.to(roomId): every socket of the group except the emitting socket.
SocketTo(c, r) == groups[r] \ {c}

\* io.to(roomId): every socket of the group.
IoTo(r) == groups[r]

\* socket.join / socket.leave
SocketJoin(g, c, r) == [g EXCEPT ![r] = @ \cup {c}]
SocketLeaveEverywhere(g, c, r) == [x \in Rooms |-> g[x] \ {c}]
SocketLeave(g, c, r) == [g EXCEPT ![r] = @ \ {c}]

\* the framework's cleanup on close: the socket leaves every group.
LeaveAllKeeps(g, c) == g
LeaveAll(g, c) == [r \in Rooms |-> g[r] \ {c}]

\* one emit(...) call: one copy of the event to each target socket
NoDelivery == [c \in Conns |-> 0]
EmitTwice(dl, targets) == [c \in Conns |-> IF c \in targets THEN dl[c] + 2 ELSE dl[c]]
Emit(dl, targets) == [c \in Conns |-> IF c \in targets THEN dl[c] + 1 ELSE dl[c]]

\* process.exit(code) and the default action of a signal end the process.
Exited == {"exit0", "exit1", "killed"}
Alive == appPc \notin Exited

\* The observable output of a handler step.
\*   op        the handler step that ran
\*   ev        the event it emitted to sockets, dl the copies each socket got
\*   room      the room the step was about, user and conn the acting identity
\*             and socket, tok the kind of token presented
\*   pubs      the pub/sub channels and queues it published to
\*   persisted whether the message of the operation was saved
\*   online, entry  the arguments of a presence update and whether the
\*             registry held the identity when the update was requested
\*   result    what the requester was answered
\*   pubFail   the pub/sub channels and queues whose publish failed
\*   members   the member list of the room document returned to the requester
\*   msg       the message document the step was about
\*   input     the content and messageType the client sent
NoOut == [op |-> "none", ev |-> "none", room |-> "r1", user |-> NoUser,
          conn |-> NoConn, tok |-> "none", dl |-> NoDelivery, pubs |-> {},
          persisted |-> FALSE, online |-> FALSE, entry |-> FALSE, result |-> "none",
          pubFail |-> {}, members |-> <<>>, msg |-> "none", input |-> NoInput,
          acks |-> 0, nacks |-> 0, requeue |-> FALSE]

\* The process before App.start: no client connected, nothing installed.
Links == {"db", "redis", "queue"}
NoLife == [db |-> "closed", redis |-> "closed", queue |-> "closed",
           subscribed |-> FALSE, consuming |-> FALSE, listening |-> FALSE,
           handlers |-> {}, running |-> {}]

\* An absent document of the rooms and of the messages collection.
NoRoom == [exists |-> FALSE, owner |-> NoUser, members |-> <<>>]
NoMessage == [exists |-> FALSE, sender |-> NoUser, room |-> "r1", content |-> 0,
              isEdited |-> FALSE]

\* ------------------------------------------------------------------------
\* Initial state: process constructed, nothing connected; the store holds
\* the users, room r1 owned by u1 with both users as members, room r2
\* owned by u2 with u2 as its only member, and no message.
\* ------------------------------------------------------------------------
Init ==
  /\ appPc = "new"
  /\ life = NoLife
  /\ rabbitUp = FALSE
  /\ ioInit = FALSE
  /\ users = Users
  /\ rooms = [r \in Rooms |->
                [exists |-> TRUE,
                 owner |-> IF r = "r1" THEN "u1" ELSE "u2",
                 members |-> IF r = "r1" THEN <<"u1", "u2">> ELSE <<"u2">>]]
  /\ messages = [m \in MessageIds |-> NoMessage]
  /\ conn = [c \in Conns |-> [state |-> "idle", userId |-> NoUser, tok |-> "none"]]
  /\ nextConn = 1
  /\ connectedUsers = {}
  /\ groups = [r \in Rooms |-> {}]
  /\ wsPending = <<>>
  /\ httpPending = {}
  /\ roomPending = {}
  /\ statusOps = {}
  /\ redisKeys = [u \in Users |-> "unset"]
  /\ out = NoOut

\* ------------------------------------------------------------------------
\* App.start: database, then pub/sub, then queue, then listen.  A failed
\* connect ends the process with exit code 1.
\* ------------------------------------------------------------------------
ProcUnchanged ==
  UNCHANGED <<roomPending, messages, ioInit, users, rooms, conn, nextConn, connectedUsers, groups,
              wsPending, httpPending, statusOps, redisKeys>>

\* initializeDatabase: Database.connect opens the mongoose connection and
\* then registers its own SIGINT handler.
InitializeDatabase ==
  /\ appPc = "new"
  /\ \E ok \in BOOLEAN :
       /\ appPc' = IF ok THEN "dbUp" ELSE "exit1"
       /\ life' = IF ok THEN [life EXCEPT !.db = "open",
                                          !.handlers = @ \cup {"dbSigint"}]
                        ELSE life
  /\ out' = NoOut
  /\ UNCHANGED rabbitUp
  /\ ProcUnchanged

\* initializeRedis: RedisClient.connect, then setupRedisSubscriptions.
InitializeRedis ==
  /\ appPc = "dbUp"
  /\ \E ok \in BOOLEAN :
       /\ appPc' = IF ok THEN "redisUp" ELSE "exit1"
       /\ life' = IF ok THEN [life EXCEPT !.redis = "open", !.subscribed = TRUE]
                        ELSE life
  /\ out' = NoOut
  /\ UNCHANGED rabbitUp
  /\ ProcUnchanged

\* initializeRabbitMQ: RabbitMQClient.connect, then setupRabbitMQConsumers.
InitializeRabbitMQ ==
  /\ appPc = "redisUp"
  /\ \E ok \in BOOLEAN :
       /\ appPc' = IF ok THEN "queueUp" ELSE "exit1"
       /\ rabbitUp' = ok
       /\ life' = IF ok THEN [life EXCEPT !.queue = "open", !.consuming = TRUE]
                        ELSE life
  /\ out' = NoOut
  /\ ProcUnchanged

\* A listen that does not wait for the queue client.
ListenEarly ==
  /\ appPc \in {"redisUp", "queueUp"}
  /\ appPc' = "listening"
  /\ life' = [life EXCEPT !.listening = TRUE, !.handlers = @ \cup {"graceful"}]
  /\ out' = NoOut
  /\ UNCHANGED rabbitUp
  /\ ProcUnchanged

\* setupGracefulShutdown, then app.listen
Listen ==
  /\ appPc = "queueUp"
  /\ appPc' = "listening"
  /\ life' = [life EXCEPT !.listening = TRUE, !.handlers = @ \cup {"graceful"}]
  /\ out' = NoOut
  /\ UNCHANGED rabbitUp
  /\ ProcUnchanged

\* ------------------------------------------------------------------------
\* Signals.  process.on(signal) listeners run in the order of their
\* registration; a signal without a listener ends the process.  The SIGINT
\* listener of Database.connect closes the mongoose connection and calls
\* process.exit(0); gracefulShutdown (SIGINT and SIGTERM) awaits the three
\* disconnects together, then process.exit(0), or process.exit(1) as soon
\* as one of them rejects.  A signal is taken while no listener is running.
\* ------------------------------------------------------------------------
Signals == {"SIGINT", "SIGTERM"}
Listeners(sig) ==
  IF sig = "SIGINT" THEN life.handlers ELSE life.handlers \cap {"graceful"}

\* The connections a set of running listeners asked to close.
Closing(l, hs) ==
  IF life[l] # "open" THEN life[l]
  ELSE IF l = "db" /\ hs # {} THEN "closing"
  ELSE IF "graceful" \in hs THEN "closing"
  ELSE life[l]

Signal(sig) ==
  /\ Alive
  /\ life.running = {}
  /\ IF Listeners(sig) = {}
       THEN /\ appPc' = "killed"
            /\ UNCHANGED life
       ELSE /\ life' = [life EXCEPT !.running = Listeners(sig),
                                    !.db = Closing("db", Listeners(sig)),
                                    !.redis = Closing("redis", Listeners(sig)),
                                    !.queue = Closing("queue", Listeners(sig))]
            /\ UNCHANGED appPc
  /\ out' = [NoOut EXCEPT !.op = "signal", !.ev = sig]
  /\ UNCHANGED <<roomPending, rabbitUp, ioInit, users, rooms, messages, conn, nextConn,
                 connectedUsers, groups, wsPending, httpPending, statusOps, redisKeys>>

\* One disconnect settles.  A resolved close of the mongoose connection
\* resumes the SIGINT listener of Database.connect first, which exits with
\* 0; a rejected disconnect makes gracefulShutdown exit with 1; without
\* gracefulShutdown the rejection is unhandled, which ends the process with
\* 1 or is only reported, by the runtime's version; gracefulShutdown exits
\* with 0 once the three disconnects have resolved.
AfterClose(l, ok, nl, crash) ==
  IF ok /\ l = "db" /\ "dbSigint" \in life.running THEN "exit0"
  ELSE IF ~ok /\ "graceful" \in life.running THEN "exit1"
  ELSE IF ~ok THEN (IF crash THEN "exit1" ELSE appPc)
  ELSE IF "graceful" \in life.running /\ \A k \in Links : nl[k] = "closed" THEN "exit0"
  ELSE appPc

CloseDone(l, ok, crash) ==
  /\ Alive
  /\ life[l] = "closing"
  /\ LET nl == [life EXCEPT ![l] = IF ok THEN "closed" ELSE "open"]
     IN /\ appPc' = AfterClose(l, ok, nl, crash)
        /\ life' = IF AfterClose(l, ok, nl, crash) = appPc /\ ~ok
                     THEN [nl EXCEPT !.running = @ \ {"dbSigint"}]
                     ELSE nl
  /\ out' = [NoOut EXCEPT !.op = "disconnect", !.ev = l,
                          !.result = IF ok THEN "resolved" ELSE "rejected"]
  /\ UNCHANGED <<roomPending, rabbitUp, ioInit, users, rooms, messages, conn, nextConn,
                 connectedUsers, groups, wsPending, httpPending, statusOps, redisKeys>>

\* ------------------------------------------------------------------------
\* Queue consumers.  The broker delivers a message of a consumed queue (or
\* null when it cancels the consumer); the body is what some producer
\* published.  The consumer parses it, calls the callback and acks; an
\* exception of either is caught and the message is nacked with
\* requeue = false.
\* ------------------------------------------------------------------------
ConsumedQueues == {"message_processing", "user_notifications", "message_logging"}
Bodies == {"null", "json", "malformed"}

\* JSON.parse(msg.content.toString()): returns for a JSON text, throws
\* otherwise.
JsonParse(body) == body = "json"

\* A consumer that acks before it calls the callback.
SettleAckFirst(body, cbOk) ==
  IF body = "null" THEN [acks |-> 0, nacks |-> 0, requeue |-> FALSE]
  ELSE IF ~JsonParse(body) THEN [acks |-> 0, nacks |-> 1, requeue |-> FALSE]
  ELSE IF ~cbOk THEN [acks |-> 1, nacks |-> 1, requeue |-> FALSE]
  ELSE [acks |-> 1, nacks |-> 0, requeue |-> FALSE]

Settle(body, cbOk) ==
  IF body = "null" THEN [acks |-> 0, nacks |-> 0, requeue |-> FALSE]
  ELSE IF ~JsonParse(body) THEN [acks |-> 0, nacks |-> 1, requeue |-> FALSE]
  ELSE IF ~cbOk THEN [acks |-> 0, nacks |-> 1, requeue |-> FALSE]
  ELSE [acks |-> 1, nacks |-> 0, requeue |-> FALSE]

Consume(q, body, cbOk) ==
  /\ Alive
  /\ life.consuming
  /\ life.queue = "open"
  /\ out' = [NoOut EXCEPT !.op = "consume", !.ev = q, !.msg = body,
                          !.result = IF body = "null" \/ ~JsonParse(body) THEN "not called"
                                     ELSE IF cbOk THEN "returned" ELSE "threw",
                          !.acks = Settle(body, cbOk).acks,
                          !.nacks = Settle(body, cbOk).nacks,
                          !.requeue = Settle(body, cbOk).requeue]
  /\ UNCHANGED <<life, roomPending, appPc, rabbitUp, ioInit, users, rooms, messages, conn,
                 nextConn, connectedUsers, groups, wsPending, httpPending, statusOps,
                 redisKeys>>

\* SocketService.initialize(server): creates the socket server and installs
\* the handshake middleware and the connection handler.  App.start does not
\* call it; it is a public entry point of the service, taken here once the
\* process serves requests.
Initialize ==
  /\ appPc = "listening"
  /\ ~ioInit
  /\ ioInit' = TRUE
  /\ out' = NoOut
  /\ UNCHANGED <<life, roomPending, messages, appPc, rabbitUp, users, rooms, conn, nextConn, connectedUsers,
                 groups, wsPending, httpPending, statusOps, redisKeys>>

\* DatabaseSeeder.clearDatabase: deleteMany({}) on messages, rooms and users.
\* Tokens issued before it stay signature-valid.
ClearDatabase ==
  /\ Alive
  /\ users # {}
  /\ users' = {}
  /\ rooms' = [r \in Rooms |-> NoRoom]
  /\ messages' = [m \in MessageIds |-> NoMessage]
  /\ out' = NoOut
  /\ UNCHANGED <<life, roomPending, appPc, rabbitUp, ioInit, conn, nextConn, connectedUsers,
                 groups, wsPending, httpPending, statusOps, redisKeys>>

\* ------------------------------------------------------------------------
\* Real-time handshake (io.use middleware) and connection handler
\* ------------------------------------------------------------------------
\* Outcome of the middleware for a presented token: next(new Error(...))
\* without token or when jwt.verify throws, next() otherwise.
HandshakeResult(tok) ==
  IF tok = NoToken THEN "refused"
  ELSE IF JwtVerify(tok) THEN "accepted"
  ELSE "refused"

\* A call of updateUserOnlineStatus(userId, isOnline) suspended at setEx.
\* entry records whether the registry held the identity when the call was made.
StatusOp(u, online, c, entry) ==
  [userId |-> u, isOnline |-> online, conn |-> c, entry |-> entry, phase |-> "setEx"]

\* A connection attempt: the middleware, then, when it accepted, the
\* io.on('connection') handler, which registers the socket and starts the
\* presence update.  A refused attempt leaves no socket behind.
Connect(tok) ==
  /\ Alive
  /\ ioInit
  /\ nextConn \in Conns
  /\ IF HandshakeResult(tok) = "accepted"
       THEN /\ conn' = [conn EXCEPT ![nextConn] =
                          [state |-> "open", userId |-> tok.userId, tok |-> tok.kind]]
            /\ nextConn' = nextConn + 1
            /\ IF tok.userId # NoUser
                 THEN /\ connectedUsers' = MapSet(connectedUsers, tok.userId, nextConn)
                      /\ statusOps' = statusOps \cup
                           {StatusOp(tok.userId, TRUE, nextConn, MapHas(connectedUsers, tok.userId))}
                 ELSE UNCHANGED <<connectedUsers, statusOps>>
            /\ out' = [NoOut EXCEPT !.op = "connection", !.user = tok.userId,
                                    !.conn = nextConn, !.tok = tok.kind,
                                    !.online = TRUE,
                                    !.entry = MapHas(connectedUsers, tok.userId),
                                    !.result = "accepted"]
       ELSE /\ out' = [NoOut EXCEPT !.op = "handshake", !.user = tok.userId,
                                    !.tok = tok.kind, !.result = "refused"]
            /\ UNCHANGED <<conn, nextConn, connectedUsers, statusOps>>
  /\ UNCHANGED <<life, roomPending, messages, appPc, rabbitUp, ioInit, users, rooms, groups, wsPending,
                 httpPending, redisKeys>>

\* socket.on('join_room'): subscribe and announce user_joined to the others.
JoinRoomEvent(c, r) ==
  /\ Alive
  /\ conn[c].state = "open"
  /\ groups' = SocketJoin(groups, c, r)
  /\ out' = [NoOut EXCEPT !.op = "join_room", !.ev = "user_joined", !.room = r,
                          !.user = conn[c].userId, !.conn = c,
                          !.dl = Emit(NoDelivery, groups'[r] \ {c})]
  /\ UNCHANGED <<life, roomPending, messages, appPc, rabbitUp, ioInit, users, rooms, conn, nextConn,
                 connectedUsers, wsPending, httpPending, statusOps, redisKeys>>

\* socket.on('leave_room'): unsubscribe and announce user_left to the others.
LeaveRoomEvent(c, r) ==
  /\ Alive
  /\ conn[c].state = "open"
  /\ groups' = SocketLeave(groups, c, r)
  /\ out' = [NoOut EXCEPT !.op = "leave_room", !.ev = "user_left", !.room = r,
                          !.user = conn[c].userId, !.conn = c,
                          !.dl = Emit(NoDelivery, groups'[r] \ {c})]
  /\ UNCHANGED <<life, roomPending, messages, appPc, rabbitUp, ioInit, users, rooms, conn, nextConn,
                 connectedUsers, wsPending, httpPending, statusOps, redisKeys>>

\* socket.on('typing_start') / socket.on('typing_stop'): user_typing, with
\* isTyping true or false, to the room except the sender; nothing else.
TypingEvent(c, r, isTyping) ==
  /\ Alive
  /\ conn[c].state = "open"
  /\ out' = [NoOut EXCEPT !.op = IF isTyping THEN "typing_start" ELSE "typing_stop",
                          !.ev = "user_typing", !.room = r,
                          !.user = conn[c].userId, !.conn = c,
                          !.dl = Emit(NoDelivery, SocketTo(c, r))]
  /\ UNCHANGED <<life, roomPending, messages, appPc, rabbitUp, ioInit, users, rooms, conn, nextConn,
                 connectedUsers, groups, wsPending, httpPending, statusOps,
                 redisKeys>>

\* socket.on('disconnect'): the framework has removed the socket from every
\* group; the handler deletes the registry entry of the socket's identity
\* and starts the presence update.
Disconnect(c) ==
  /\ Alive
  /\ conn[c].state = "open"
  /\ conn' = [conn EXCEPT ![c].state = "closed"]
  /\ groups' = LeaveAll(groups, c)
  /\ IF conn[c].userId # NoUser
       THEN /\ connectedUsers' = MapDelete(connectedUsers, conn[c].userId)
            /\ statusOps' = statusOps \cup
                 {StatusOp(conn[c].userId, FALSE, c, MapHas(connectedUsers, conn[c].userId))}
       ELSE UNCHANGED <<connectedUsers, statusOps>>
  /\ out' = [NoOut EXCEPT !.op = "disconnect", !.user = conn[c].userId, !.conn = c,
                          !.entry = MapHas(connectedUsers, conn[c].userId)]
  /\ UNCHANGED <<life, roomPending, messages, appPc, rabbitUp, ioInit, users, rooms, nextConn, wsPending,
                 httpPending, redisKeys>>

\* updateUserOnlineStatus, first await: client.setEx(user:{id}:online, ...).
\* A failure is caught and logged; the publish is then skipped.
StatusSetEx(op) ==
  /\ Alive
  /\ op \in statusOps
  /\ op.phase = "setEx"
  /\ \E ok \in BOOLEAN :
       /\ redisKeys' = IF ok THEN [redisKeys EXCEPT ![op.userId] =
                                     IF op.isOnline THEN "1" ELSE "0"]
                       ELSE redisKeys
       /\ statusOps' = IF ok THEN (statusOps \ {op}) \cup {[op EXCEPT !.phase = "publish"]}
                       ELSE statusOps \ {op}
       /\ out' = [NoOut EXCEPT !.op = "setEx", !.user = op.userId, !.conn = op.conn,
                               !.online = op.isOnline, !.entry = op.entry,
                               !.result = IF ok THEN "ok" ELSE "logged"]
  /\ UNCHANGED <<life, roomPending, messages, appPc, rabbitUp, ioInit, users, rooms, conn, nextConn,
                 connectedUsers, groups, wsPending, httpPending>>

\* updateUserOnlineStatus, second await: publish on user_status_change.
StatusPublish(op) ==
  /\ Alive
  /\ op \in statusOps
  /\ op.phase = "publish"
  /\ statusOps' = statusOps \ {op}
  /\ \E ok \in BOOLEAN :
       out' = [NoOut EXCEPT !.op = "presence", !.user = op.userId, !.conn = op.conn,
                            !.online = op.isOnline, !.entry = op.entry,
                            !.pubs = IF ok THEN {"user_status_change"} ELSE {},
                            !.result = IF ok THEN "ok" ELSE "logged"]
  /\ UNCHANGED <<life, roomPending, messages, appPc, rabbitUp, ioInit, users, rooms, conn, nextConn,
                 connectedUsers, groups, wsPending, httpPending, redisKeys>>

\* socket.emit(...): the event goes to that socket alone, and is discarded
\* when the socket is no longer open.
SocketEmitAll(c) == {d \in Conns : conn[d].state = "open"}
SocketEmit(c) == IF conn[c].state = "open" THEN {c} ELSE {}

\* ------------------------------------------------------------------------
\* Real-time send_message
\* ------------------------------------------------------------------------
InFlight == Len(wsPending) + Cardinality(httpPending)

\* The handler up to its await: publishToQueue('message_processing', ...)
\* has been called and the handler is suspended on it.
WsSendBegin(c, r, m) ==
  /\ Alive
  /\ conn[c].state = "open"
  /\ InFlight < MaxInFlight
  /\ wsPending' = Append(wsPending, [conn |-> c, room |-> r, input |-> m])
  /\ out' = [NoOut EXCEPT !.op = "send_message", !.room = r,
                          !.user = conn[c].userId, !.conn = c, !.input = m]
  /\ UNCHANGED <<life, roomPending, messages, appPc, rabbitUp, ioInit, users, rooms, conn, nextConn,
                 connectedUsers, groups, httpPending, statusOps, redisKeys>>

\* The awaited publishToQueue returns or throws (it throws when the channel
\* is not initialized or the channel refuses the task) and the handler
\* continues; continuations run in the order in which the handlers were
\* suspended.  On return the task is queued and new_message is broadcast to
\* the room except the sender; in the catch branch error is emitted to the
\* sender's socket.  An emit on a socket that is no longer open is discarded.
WsSendComplete(ok) ==
  /\ Alive
  /\ wsPending # <<>>
  /\ ok => rabbitUp
  /\ LET p == Head(wsPending)
     IN out' = IF ok
                 THEN [NoOut EXCEPT !.op = "send_message done", !.ev = "new_message",
                                    !.room = p.room, !.user = conn[p.conn].userId,
                                    !.conn = p.conn, !.input = p.input,
                                    !.dl = Emit(NoDelivery, SocketTo(p.conn, p.room)),
                                    !.pubs = {"message_processing"},
                                    !.result = "ok"]
                 ELSE [NoOut EXCEPT !.op = "send_message done", !.ev = "error",
                                    !.room = p.room, !.user = conn[p.conn].userId,
                                    !.conn = p.conn, !.input = p.input,
                                    !.dl = Emit(NoDelivery, SocketEmit(p.conn)),
                                    !.pubFail = {"message_processing"},
                                    !.result = "failed"]
  /\ wsPending' = Tail(wsPending)
  /\ UNCHANGED <<life, roomPending, messages, appPc, rabbitUp, ioInit, users, rooms, conn, nextConn,
                 connectedUsers, groups, httpPending, statusOps, redisKeys>>

\* ------------------------------------------------------------------------
\* HTTP path: authenticateToken gate, POST /messages, room join and leave
\* ------------------------------------------------------------------------
\* authenticateToken: 401 without token, 401 for a token jwt.verify rejects,
\* 401 when the user of the payload is not found, next() otherwise.
AuthenticateTokenNoLookup(tok) ==
  IF tok = NoToken THEN "401 Access token required"
  ELSE IF ~JwtVerify(tok) THEN "401 Invalid token"
  ELSE "next"
AuthenticateToken(tok) ==
  IF tok = NoToken THEN "401 Access token required"
  ELSE IF ~JwtVerify(tok) THEN "401 Invalid token"
  ELSE IF tok.userId \notin users THEN "401 User not found"
  ELSE "next"

\* roomSchema.pre('save'): the owner is pushed when missing from members.
PreSaveNoPush(room) == room
PreSave(room) ==
  IF Includes(room.members, room.owner) THEN room
  ELSE [room EXCEPT !.members = Append(@, room.owner)]

\* sendMessageValidation with handleValidationErrors: 400 unless the content
\* has 1..2000 characters and messageType is absent or text, image or file.
SendMessageValidation(m) ==
  /\ m.len >= MinContentLength
  /\ m.len <= MaxContentLength
  /\ m.messageType \in MessageTypes \cup {"absent"}

\* What a request is answered before the operation proper starts.
SendPrecheck(tok, r, m) ==
  IF AuthenticateToken(tok) # "next" THEN AuthenticateToken(tok)
  ELSE IF ~SendMessageValidation(m) THEN "400 Validation failed"
  ELSE IF ~rooms[r].exists THEN "Room not found"
  ELSE IF ~Includes(rooms[r].members, tok.userId) THEN "User is not a member of this room"
  ELSE "next"

\* POST /messages up to message.save(): the gate, the validators, then
\* MessageService.sendMessage's Room.findById and membership check.
HttpSendBegin(tok, r, m) ==
  /\ appPc = "listening"
  /\ IF SendPrecheck(tok, r, m) = "next"
       THEN /\ InFlight < MaxInFlight
            /\ httpPending' = httpPending \cup
                 {[sender |-> tok.userId, room |-> r, input |-> m]}
       ELSE UNCHANGED httpPending
  /\ out' = [NoOut EXCEPT !.op = "POST /messages", !.room = r, !.user = tok.userId,
                          !.tok = tok.kind, !.input = m,
                          !.result = SendPrecheck(tok, r, m)]
  /\ UNCHANGED <<life, roomPending, messages, appPc, rabbitUp, ioInit, users, rooms, conn, nextConn,
                 connectedUsers, groups, wsPending, statusOps, redisKeys>>

\* publishMessageToRabbitMQ: message_processing, then message_logging; the
\* first failure leaves the try block.
RabbitOutcomes == {"both", "first", "none"}
RabbitPubs(o) ==
  IF o = "both" THEN {"message_processing", "message_logging"}
  ELSE IF o = "first" THEN {"message_processing"}
  ELSE {}

\* emitToRoom(roomId, 'new_message', ...): io.to(roomId).emit when io is set.
EmitToRoom(dl, r) == IF ioInit THEN Emit(dl, IoTo(r)) ELSE dl

\* MessageService.sendMessage from message.save() on: save, populate,
\* emitToRoom, publish to the pub/sub topic, publish to the queues.  A
\* failure of save or populate fails the request; a failure of a publish is
\* caught and logged.  save inserts the document under a new id; it can
\* succeed only while the store has room for a document.
HttpSendFinish(p, id, dbOut, redisOk, rabbitOut) ==
  /\ appPc = "listening"
  /\ p \in httpPending
  /\ httpPending' = httpPending \ {p}
  /\ rabbitOut # "none" => rabbitUp
  /\ IF dbOut = "saveFail"
       THEN /\ id = CHOOSE m \in MessageIds : TRUE
            /\ UNCHANGED messages
       ELSE /\ ~messages[id].exists
            /\ messages' = [messages EXCEPT ![id] =
                              [exists |-> TRUE, sender |-> p.sender, room |-> p.room,
                               content |-> p.input.len, isEdited |-> FALSE]]
  /\ IF dbOut = "ok"
       THEN out' = [NoOut EXCEPT !.op = "POST /messages done",
                                 !.ev = IF ioInit THEN "new_message" ELSE "none",
                                 !.room = p.room, !.user = p.sender,
                                 !.msg = id, !.input = p.input,
                                 !.dl = EmitToRoom(NoDelivery, p.room),
                                 !.pubs = (IF redisOk THEN {"room:{roomId}"} ELSE {})
                                            \cup RabbitPubs(rabbitOut),
                                 !.pubFail = (IF redisOk THEN {} ELSE {"room:{roomId}"})
                                               \cup (RabbitPubs("both") \ RabbitPubs(rabbitOut)),
                                 !.persisted = TRUE, !.result = "201"]
       ELSE /\ redisOk /\ rabbitOut = "both"
            /\ out' = [NoOut EXCEPT !.op = "POST /messages done",
                                    !.room = p.room, !.user = p.sender,
                                    !.input = p.input,
                                    !.persisted = (dbOut = "populateFail"),
                                    !.result = "500"]
  /\ UNCHANGED <<life, roomPending, appPc, rabbitUp, ioInit, users, rooms, conn, nextConn,
                 connectedUsers, groups, wsPending, statusOps, redisKeys>>

JoinPrecheckNoDup(tok, r) ==
  IF AuthenticateToken(tok) # "next" THEN AuthenticateToken(tok)
  ELSE IF ~rooms[r].exists THEN "Room not found"
  ELSE "next"
JoinPrecheck(tok, r) ==
  IF AuthenticateToken(tok) # "next" THEN AuthenticateToken(tok)
  ELSE IF ~rooms[r].exists THEN "Room not found"
  ELSE IF Includes(rooms[r].members, tok.userId) THEN "User is already a member of this room"
  ELSE "next"

\* POST /rooms/{id}/join: the gate, then RoomService.joinRoom, for a request
\* that runs from findById to save with no other request in between.
HttpJoinRoom(tok, r) ==
  /\ appPc = "listening"
  /\ rooms' = IF JoinPrecheck(tok, r) = "next"
                THEN [rooms EXCEPT ![r] = PreSave([@ EXCEPT !.members = Append(@, tok.userId)])]
                ELSE rooms
  /\ out' = [NoOut EXCEPT !.op = "POST /rooms/join", !.room = r, !.user = tok.userId,
                          !.tok = tok.kind,
                          !.members = IF JoinPrecheck(tok, r) = "next"
                                        THEN rooms'[r].members ELSE <<>>,
                          !.result = IF JoinPrecheck(tok, r) = "next" THEN "200"
                                     ELSE JoinPrecheck(tok, r)]
  /\ UNCHANGED <<life, roomPending, messages, appPc, rabbitUp, ioInit, users, conn, nextConn, connectedUsers,
                 groups, wsPending, httpPending, statusOps, redisKeys>>

LeavePrecheck(tok, r) ==
  IF AuthenticateToken(tok) # "next" THEN AuthenticateToken(tok)
  ELSE IF ~rooms[r].exists THEN "Room not found"
  ELSE IF rooms[r].owner = tok.userId THEN "Room owner cannot leave the room"
  ELSE IF ~Includes(rooms[r].members, tok.userId) THEN "User is not a member of this room"
  ELSE "next"

\* POST /rooms/{id}/leave: the gate, then RoomService.leaveRoom, for a
\* request that runs from findById to save with no other request in between.
HttpLeaveRoom(tok, r) ==
  /\ appPc = "listening"
  /\ rooms' = IF LeavePrecheck(tok, r) = "next"
                THEN [rooms EXCEPT ![r] = PreSave([@ EXCEPT !.members = FilterOut(@, tok.userId)])]
                ELSE rooms
  /\ out' = [NoOut EXCEPT !.op = "POST /rooms/leave", !.room = r, !.user = tok.userId,
                          !.tok = tok.kind,
                          !.result = IF LeavePrecheck(tok, r) = "next" THEN "200"
                                     ELSE LeavePrecheck(tok, r)]
  /\ UNCHANGED <<life, roomPending, messages, appPc, rabbitUp, ioInit, users, conn, nextConn, connectedUsers,
                 groups, wsPending, httpPending, statusOps, redisKeys>>

\* ------------------------------------------------------------------------
\* HTTP path: room join and leave across their suspension points.  Each
\* request loads the room document (await Room.findById), works on its own
\* copy and writes it back (await room.save()); other requests run in
\* between.  save() writes what the request changed on its copy: the pushed
\* elements of members are appended to the stored array as it is then, an
\* assigned members array replaces the stored one and is refused when the
\* stored document was modified since it was loaded.
\* ------------------------------------------------------------------------
RoomRequestIds == 1..MaxRoomInFlight
FreeRequestIds == RoomRequestIds \ {p.req : p \in roomPending}

\* The elements joinRoom's copy gained between findById and save():
\* members.push(userId), then the owner when the pre-save hook misses it.
JoinDelta(room, u) ==
  SubSeq(PreSave([room EXCEPT !.members = Append(@, u)]).members,
         Len(room.members) + 1,
         Len(PreSave([room EXCEPT !.members = Append(@, u)]).members))

\* joinRoom up to room.save()
HttpJoinRead(tok, r) ==
  /\ appPc = "listening"
  /\ IF JoinPrecheck(tok, r) = "next"
       THEN /\ FreeRequestIds # {}
            /\ roomPending' = roomPending \cup
                 {[req |-> CHOOSE q \in FreeRequestIds : \A x \in FreeRequestIds : q <= x,
                   kind |-> "join", user |-> tok.userId, room |-> r,
                   copy |-> rooms[r], delta |-> JoinDelta(rooms[r], tok.userId)]}
            /\ out' = [NoOut EXCEPT !.op = "POST /rooms/join read", !.room = r,
                                    !.user = tok.userId, !.tok = tok.kind]
       ELSE /\ UNCHANGED roomPending
            /\ out' = [NoOut EXCEPT !.op = "POST /rooms/join", !.room = r,
                                    !.user = tok.userId, !.tok = tok.kind,
                                    !.result = JoinPrecheck(tok, r)]
  /\ UNCHANGED <<life, appPc, rabbitUp, ioInit, users, rooms, messages, conn, nextConn,
                 connectedUsers, groups, wsPending, httpPending, statusOps, redisKeys>>

\* joinRoom from room.save() on: the pushed elements are appended to the
\* stored member array; the request fails when the write fails or the
\* document is gone.
HttpJoinSave(p, ok) ==
  /\ appPc = "listening"
  /\ p \in roomPending
  /\ p.kind = "join"
  /\ ok => rooms[p.room].exists
  /\ roomPending' = roomPending \ {p}
  /\ rooms' = IF ok THEN [rooms EXCEPT ![p.room].members = @ \o p.delta] ELSE rooms
  /\ out' = [NoOut EXCEPT !.op = "POST /rooms/join done", !.room = p.room,
                          !.user = p.user, !.tok = "valid",
                          !.members = IF ok THEN p.copy.members \o p.delta ELSE <<>>,
                          !.result = IF ok THEN "200" ELSE "500"]
  /\ UNCHANGED <<life, appPc, rabbitUp, ioInit, users, messages, conn, nextConn,
                 connectedUsers, groups, wsPending, httpPending, statusOps, redisKeys>>

\* leaveRoom up to room.save()
HttpLeaveRead(tok, r) ==
  /\ appPc = "listening"
  /\ IF LeavePrecheck(tok, r) = "next"
       THEN /\ FreeRequestIds # {}
            /\ roomPending' = roomPending \cup
                 {[req |-> CHOOSE q \in FreeRequestIds : \A x \in FreeRequestIds : q <= x,
                   kind |-> "leave", user |-> tok.userId, room |-> r,
                   copy |-> rooms[r], delta |-> <<>>]}
            /\ out' = [NoOut EXCEPT !.op = "POST /rooms/leave read", !.room = r,
                                    !.user = tok.userId, !.tok = tok.kind]
       ELSE /\ UNCHANGED roomPending
            /\ out' = [NoOut EXCEPT !.op = "POST /rooms/leave", !.room = r,
                                    !.user = tok.userId, !.tok = tok.kind,
                                    !.result = LeavePrecheck(tok, r)]
  /\ UNCHANGED <<life, appPc, rabbitUp, ioInit, users, rooms, messages, conn, nextConn,
                 connectedUsers, groups, wsPending, httpPending, statusOps, redisKeys>>

\* leaveRoom from room.save() on: the filtered array replaces the stored
\* one when the stored document is still the one that was loaded; otherwise
\* the save is refused and the request fails.
HttpLeaveSave(p, ok) ==
  /\ appPc = "listening"
  /\ p \in roomPending
  /\ p.kind = "leave"
  /\ ok => rooms[p.room] = p.copy
  /\ roomPending' = roomPending \ {p}
  /\ rooms' = IF ok
                THEN [rooms EXCEPT ![p.room] =
                        PreSave([p.copy EXCEPT !.members = FilterOut(@, p.user)])]
                ELSE rooms
  /\ out' = [NoOut EXCEPT !.op = "POST /rooms/leave done", !.room = p.room,
                          !.user = p.user, !.tok = "valid",
                          !.result = IF ok THEN "200" ELSE "500"]
  /\ UNCHANGED <<life, appPc, rabbitUp, ioInit, users, messages, conn, nextConn,
                 connectedUsers, groups, wsPending, httpPending, statusOps, redisKeys>>

\* ------------------------------------------------------------------------
\* HTTP path: room create, update and delete
\* ------------------------------------------------------------------------
\* A room id is free for a new document when no document, group or pending
\* request refers to it.
FreeRoomId(r) ==
  /\ ~rooms[r].exists
  /\ groups[r] = {}
  /\ \A i \in 1..Len(wsPending) : wsPending[i].room # r
  /\ \A p \in httpPending : p.room # r
  /\ \A m \in MessageIds : messages[m].exists => messages[m].room # r

\* POST /rooms: the gate, then RoomService.createRoom, which saves a room
\* owned by the requester with the requester as its only member.
HttpCreateRoom(tok, r) ==
  /\ appPc = "listening"
  /\ IF AuthenticateToken(tok) = "next"
       THEN /\ FreeRoomId(r)
            /\ rooms' = [rooms EXCEPT ![r] =
                           PreSave([exists |-> TRUE, owner |-> tok.userId,
                                    members |-> <<tok.userId>>])]
            /\ out' = [NoOut EXCEPT !.op = "POST /rooms", !.room = r,
                                    !.user = tok.userId, !.tok = tok.kind,
                                    !.members = rooms'[r].members, !.result = "201"]
       ELSE /\ r = CHOOSE x \in Rooms : TRUE
            /\ UNCHANGED rooms
            /\ out' = [NoOut EXCEPT !.op = "POST /rooms", !.user = tok.userId,
                                    !.tok = tok.kind, !.result = AuthenticateToken(tok)]
  /\ UNCHANGED <<life, roomPending, appPc, rabbitUp, ioInit, users, messages, conn, nextConn,
                 connectedUsers, groups, wsPending, httpPending, statusOps, redisKeys>>

\* The request bodies of PUT /rooms/{id}.  updateRoomValidation looks at
\* name, description and isPrivate only, and the controller hands req.body
\* to the service as it came: a body can carry owner and members.
UpdateBodies == [owner : Users \cup {"absent"}, members : {"absent", "empty"}]

\* Object.assign(room, updateData)
ObjectAssign(room, body) ==
  [room EXCEPT !.owner = IF body.owner = "absent" THEN @ ELSE body.owner,
               !.members = IF body.members = "absent" THEN @ ELSE <<>>]

UpdateRoomPrecheck(tok, r) ==
  IF AuthenticateToken(tok) # "next" THEN AuthenticateToken(tok)
  ELSE IF ~rooms[r].exists THEN "Room not found"
  ELSE IF rooms[r].owner # tok.userId THEN "Only room owner can update the room"
  ELSE "next"

\* PUT /rooms/{id}: the gate, then RoomService.updateRoom
HttpUpdateRoom(tok, r, body) ==
  /\ appPc = "listening"
  /\ UpdateRoomPrecheck(tok, r) # "next" => body = [owner |-> "absent", members |-> "absent"]
  /\ rooms' = IF UpdateRoomPrecheck(tok, r) = "next"
                THEN [rooms EXCEPT ![r] = PreSave(ObjectAssign(@, body))]
                ELSE rooms
  /\ out' = [NoOut EXCEPT !.op = "PUT /rooms", !.room = r, !.user = tok.userId,
                          !.tok = tok.kind,
                          !.members = IF UpdateRoomPrecheck(tok, r) = "next"
                                        THEN rooms'[r].members ELSE <<>>,
                          !.result = IF UpdateRoomPrecheck(tok, r) = "next" THEN "200"
                                     ELSE UpdateRoomPrecheck(tok, r)]
  /\ UNCHANGED <<life, roomPending, appPc, rabbitUp, ioInit, users, messages, conn, nextConn,
                 connectedUsers, groups, wsPending, httpPending, statusOps, redisKeys>>

DeleteRoomPrecheck(tok, r) ==
  IF AuthenticateToken(tok) # "next" THEN AuthenticateToken(tok)
  ELSE IF ~rooms[r].exists THEN "Room not found"
  ELSE IF rooms[r].owner # tok.userId THEN "Only room owner can delete the room"
  ELSE "next"

\* DELETE /rooms/{id}: the gate, then RoomService.deleteRoom
\* (Room.findByIdAndDelete)
HttpDeleteRoom(tok, r) ==
  /\ appPc = "listening"
  /\ rooms' = IF DeleteRoomPrecheck(tok, r) = "next"
                THEN [rooms EXCEPT ![r] = NoRoom]
                ELSE rooms
  /\ out' = [NoOut EXCEPT !.op = "DELETE /rooms", !.room = r, !.user = tok.userId,
                          !.tok = tok.kind,
                          !.result = IF DeleteRoomPrecheck(tok, r) = "next" THEN "200"
                                     ELSE DeleteRoomPrecheck(tok, r)]
  /\ UNCHANGED <<life, roomPending, appPc, rabbitUp, ioInit, users, messages, conn, nextConn,
                 connectedUsers, groups, wsPending, httpPending, statusOps, redisKeys>>

\* ------------------------------------------------------------------------
\* HTTP path: message edit and delete.  Each request is one step: between
\* its findById and its write no other request can change the sender of the
\* document, a concurrent delete makes the write fail (the failing outcome
\* below), and concurrent edits take effect in the order of their writes.
\* ------------------------------------------------------------------------
\* updateMessageValidation: content of 1..2000 characters.
UpdateMessageValidation(m) ==
  /\ m.len >= MinContentLength
  /\ m.len <= MaxContentLength

UpdatePrecheckAnySender(tok, id, m) ==
  IF AuthenticateToken(tok) # "next" THEN AuthenticateToken(tok)
  ELSE IF ~UpdateMessageValidation(m) THEN "400 Validation failed"
  ELSE IF ~messages[id].exists THEN "Message not found"
  ELSE "next"

UpdatePrecheck(tok, id, m) ==
  IF AuthenticateToken(tok) # "next" THEN AuthenticateToken(tok)
  ELSE IF ~UpdateMessageValidation(m) THEN "400 Validation failed"
  ELSE IF ~messages[id].exists THEN "Message not found"
  ELSE IF messages[id].sender # tok.userId THEN "You can only edit your own messages"
  ELSE "next"

\* messageSchema.pre('save'): isEdited is set when the content of an
\* existing document was modified.
MessagePreSave(old, new) ==
  IF new.content # old.content THEN [new EXCEPT !.isEdited = TRUE] ELSE new

\* publishMessageEditToRedis / publishMessageDeleteToRedis: one publish on
\* room:{roomId}, a failure is caught and logged.
TopicPubs(redisOk) == IF redisOk THEN {"room:{roomId}"} ELSE {}
TopicFail(redisOk) == IF redisOk THEN {} ELSE {"room:{roomId}"}

\* PUT /messages/{id}: the gate, the validators, MessageService.updateMessage
\* (findById, sender check, save, populate, publish to the pub/sub topic).
HttpUpdateMessage(tok, id, m, dbOut, redisOk) ==
  /\ appPc = "listening"
  /\ IF UpdatePrecheck(tok, id, m) # "next"
       THEN /\ dbOut = "ok" /\ redisOk
            /\ UNCHANGED messages
            /\ out' = [NoOut EXCEPT !.op = "PUT /messages", !.msg = id,
                                    !.user = tok.userId, !.tok = tok.kind, !.input = m,
                                    !.result = UpdatePrecheck(tok, id, m)]
       ELSE /\ messages' = IF dbOut = "saveFail" THEN messages
                           ELSE [messages EXCEPT ![id] =
                                   MessagePreSave(@, [@ EXCEPT !.content = m.len])]
            /\ dbOut # "ok" => redisOk
            /\ out' = [NoOut EXCEPT !.op = "PUT /messages", !.msg = id,
                                    !.room = messages[id].room,
                                    !.user = tok.userId, !.tok = tok.kind, !.input = m,
                                    !.pubs = IF dbOut = "ok" THEN TopicPubs(redisOk) ELSE {},
                                    !.pubFail = IF dbOut = "ok" THEN TopicFail(redisOk) ELSE {},
                                    !.persisted = (dbOut # "saveFail"),
                                    !.result = IF dbOut = "ok" THEN "200" ELSE "500"]
  /\ UNCHANGED <<life, roomPending, appPc, rabbitUp, ioInit, users, rooms, conn, nextConn,
                 connectedUsers, groups, wsPending, httpPending, statusOps, redisKeys>>

DeletePrecheck(tok, id) ==
  IF AuthenticateToken(tok) # "next" THEN AuthenticateToken(tok)
  ELSE IF ~messages[id].exists THEN "Message not found"
  ELSE IF messages[id].sender # tok.userId THEN "You can only delete your own messages"
  ELSE "next"

\* DELETE /messages/{id}: the gate, MessageService.deleteMessage (findById,
\* sender check, findByIdAndDelete, publish to the pub/sub topic).
HttpDeleteMessage(tok, id, dbOk, redisOk) ==
  /\ appPc = "listening"
  /\ IF DeletePrecheck(tok, id) # "next"
       THEN /\ dbOk /\ redisOk
            /\ UNCHANGED messages
            /\ out' = [NoOut EXCEPT !.op = "DELETE /messages", !.msg = id,
                                    !.user = tok.userId, !.tok = tok.kind,
                                    !.result = DeletePrecheck(tok, id)]
       ELSE /\ messages' = IF dbOk THEN [messages EXCEPT ![id] = NoMessage] ELSE messages
            /\ ~dbOk => redisOk
            /\ out' = [NoOut EXCEPT !.op = "DELETE /messages", !.msg = id,
                                    !.room = messages[id].room,
                                    !.user = tok.userId, !.tok = tok.kind,
                                    !.pubs = IF dbOk THEN TopicPubs(redisOk) ELSE {},
                                    !.pubFail = IF dbOk THEN TopicFail(redisOk) ELSE {},
                                    !.persisted = dbOk,
                                    !.result = IF dbOk THEN "200" ELSE "500"]
  /\ UNCHANGED <<life, roomPending, appPc, rabbitUp, ioInit, users, rooms, conn, nextConn,
                 connectedUsers, groups, wsPending, httpPending, statusOps, redisKeys>>

\* ------------------------------------------------------------------------
\* Specifications.  The presence continuations (StatusSetEx, StatusPublish)
\* write only statusOps and redisKeys, which no send, join or leave handler
\* reads; the send handlers write only wsPending and httpPending, which no
\* registry, presence or membership step reads; the membership requests
\* write only rooms.  The layer is therefore
\* checked as compositions of the same actions: the handshake gate with
\* every client event handler, the session registry with presence, the room
\* groups with persisted membership, the message fan-out (whose handshakes
\* and HTTP requests carry tokens that pass the gate; the gate's refusals
\* are part of the gate, room and store compositions), the two send paths
\* with every kind of input, the message edit and delete requests, and the
\* HTTP requests on the rooms and messages collections without any socket.
\* ------------------------------------------------------------------------
NextGate ==
  \/ InitializeDatabase
  \/ InitializeRedis
  \/ InitializeRabbitMQ
  \/ Listen
  \/ Initialize
  \/ \E tok \in Tokens : Connect(tok)
  \/ \E c \in Conns, r \in Rooms : JoinRoomEvent(c, r)
  \/ \E c \in Conns, r \in Rooms : LeaveRoomEvent(c, r)
  \/ \E c \in Conns, r \in Rooms, isTyping \in BOOLEAN : TypingEvent(c, r, isTyping)
  \/ \E c \in Conns, r \in Rooms : WsSendBegin(c, r, ValidInput)
  \/ \E ok \in BOOLEAN : WsSendComplete(ok)
  \/ \E c \in Conns : Disconnect(c)

SpecGate == Init /\ [][NextGate]_vars

NextPresence ==
  \/ InitializeDatabase
  \/ InitializeRedis
  \/ InitializeRabbitMQ
  \/ Listen
  \/ Initialize
  \/ ClearDatabase
  \/ \E tok \in Tokens : Connect(tok)
  \/ \E c \in Conns : Disconnect(c)
  \/ \E op \in statusOps : StatusSetEx(op)
  \/ \E op \in statusOps : StatusPublish(op)

SpecPresence == Init /\ [][NextPresence]_vars

NextRoom ==
  \/ InitializeDatabase
  \/ InitializeRedis
  \/ InitializeRabbitMQ
  \/ Listen
  \/ Initialize
  \/ ClearDatabase
  \/ \E tok \in Tokens : Connect(tok)
  \/ \E c \in Conns, r \in Rooms : JoinRoomEvent(c, r)
  \/ \E c \in Conns, r \in Rooms : LeaveRoomEvent(c, r)
  \/ \E c \in Conns : Disconnect(c)
  \/ \E tok \in Tokens, r \in Rooms : HttpJoinRoom(tok, r)
  \/ \E tok \in Tokens, r \in Rooms : HttpLeaveRoom(tok, r)

SpecRoom == Init /\ [][NextRoom]_vars

NextMsg ==
  \/ InitializeDatabase
  \/ InitializeRedis
  \/ InitializeRabbitMQ
  \/ Listen
  \/ Initialize
  \/ \E tok \in ValidTokens : Connect(tok)
  \/ \E c \in Conns, r \in Rooms : JoinRoomEvent(c, r)
  \/ \E c \in Conns, r \in Rooms : LeaveRoomEvent(c, r)
  \/ \E c \in Conns : Disconnect(c)
  \/ \E c \in Conns, r \in Rooms : WsSendBegin(c, r, ValidInput)
  \/ \E ok \in BOOLEAN : WsSendComplete(ok)
  \/ \E tok \in ValidTokens, r \in Rooms : HttpSendBegin(tok, r, ValidInput)
  \/ \E p \in httpPending, id \in MessageIds,
        dbOut \in {"ok", "saveFail", "populateFail"},
        redisOk \in BOOLEAN, rabbitOut \in RabbitOutcomes :
        HttpSendFinish(p, id, dbOut, redisOk, rabbitOut)

SpecMsg == Init /\ [][NextMsg]_vars

NextSend ==
  \/ InitializeDatabase
  \/ InitializeRedis
  \/ InitializeRabbitMQ
  \/ Listen
  \/ Initialize
  \/ \E tok \in ValidTokens : Connect(tok)
  \/ \E c \in Conns, r \in Rooms : JoinRoomEvent(c, r)
  \/ \E c \in Conns, r \in Rooms, m \in MessageInputs : WsSendBegin(c, r, m)
  \/ \E ok \in BOOLEAN : WsSendComplete(ok)
  \/ \E tok \in ValidTokens, r \in Rooms, m \in MessageInputs : HttpSendBegin(tok, r, m)
  \/ \E p \in httpPending, id \in MessageIds,
        dbOut \in {"ok", "saveFail", "populateFail"},
        redisOk \in BOOLEAN, rabbitOut \in RabbitOutcomes :
        HttpSendFinish(p, id, dbOut, redisOk, rabbitOut)

SpecSend == Init /\ [][NextSend]_vars

NextEdit ==
  \/ InitializeDatabase
  \/ InitializeRedis
  \/ InitializeRabbitMQ
  \/ Listen
  \/ Initialize
  \/ \E tok \in ValidTokens : Connect(tok)
  \/ \E c \in Conns, r \in Rooms : JoinRoomEvent(c, r)
  \/ \E tok \in ValidTokens, r \in Rooms : HttpSendBegin(tok, r, ValidInput)
  \/ \E p \in httpPending, id \in MessageIds,
        dbOut \in {"ok", "saveFail", "populateFail"},
        redisOk \in BOOLEAN, rabbitOut \in RabbitOutcomes :
        HttpSendFinish(p, id, dbOut, redisOk, rabbitOut)
  \/ \E tok \in ValidTokens, id \in MessageIds, m \in UpdateInputs,
        dbOut \in {"ok", "saveFail", "populateFail"}, redisOk \in BOOLEAN :
        HttpUpdateMessage(tok, id, m, dbOut, redisOk)
  \/ \E tok \in ValidTokens, id \in MessageIds, dbOk \in BOOLEAN, redisOk \in BOOLEAN :
        HttpDeleteMessage(tok, id, dbOk, redisOk)

SpecEdit == Init /\ [][NextEdit]_vars

NextStore ==
  \/ InitializeDatabase
  \/ InitializeRedis
  \/ InitializeRabbitMQ
  \/ Listen
  \/ ClearDatabase
  \/ \E tok \in Tokens, r \in Rooms : HttpCreateRoom(tok, r)
  \/ \E tok \in Tokens, r \in Rooms, body \in UpdateBodies : HttpUpdateRoom(tok, r, body)
  \/ \E tok \in Tokens, r \in Rooms : HttpDeleteRoom(tok, r)
  \/ \E tok \in Tokens, r \in Rooms : HttpJoinRoom(tok, r)
  \/ \E tok \in Tokens, r \in Rooms : HttpLeaveRoom(tok, r)
  \/ \E tok \in Tokens, r \in Rooms : HttpSendBegin(tok, r, ValidInput)
  \/ \E p \in httpPending, id \in MessageIds,
        dbOut \in {"ok", "saveFail", "populateFail"},
        redisOk \in BOOLEAN, rabbitOut \in RabbitOutcomes :
        HttpSendFinish(p, id, dbOut, redisOk, rabbitOut)

SpecStore == Init /\ [][NextStore]_vars

NextJoin ==
  \/ InitializeDatabase
  \/ InitializeRedis
  \/ InitializeRabbitMQ
  \/ Listen
  \/ \E tok \in ValidTokens, r \in Rooms : HttpJoinRead(tok, r)
  \/ \E p \in roomPending, ok \in BOOLEAN : HttpJoinSave(p, ok)
  \/ \E tok \in ValidTokens, r \in Rooms : HttpLeaveRead(tok, r)
  \/ \E p \in roomPending, ok \in BOOLEAN : HttpLeaveSave(p, ok)

SpecJoin == Init /\ [][NextJoin]_vars

\* Room deletion against both send paths.  No room is created here, so a
\* room that does not exist was deleted by its owner.
NextDelete ==
  \/ InitializeDatabase
  \/ InitializeRedis
  \/ InitializeRabbitMQ
  \/ Listen
  \/ Initialize
  \/ \E tok \in ValidTokens : Connect(tok)
  \/ \E c \in Conns, r \in Rooms : JoinRoomEvent(c, r)
  \/ \E tok \in ValidTokens, r \in Rooms : HttpDeleteRoom(tok, r)
  \/ \E c \in Conns, r \in Rooms : WsSendBegin(c, r, ValidInput)
  \/ \E ok \in BOOLEAN : WsSendComplete(ok)
  \/ \E tok \in ValidTokens, r \in Rooms : HttpSendBegin(tok, r, ValidInput)
  \/ \E p \in httpPending, id \in MessageIds,
        dbOut \in {"ok", "saveFail", "populateFail"},
        redisOk \in BOOLEAN, rabbitOut \in RabbitOutcomes :
        HttpSendFinish(p, id, dbOut, redisOk, rabbitOut)

SpecDelete == Init /\ [][NextDelete]_vars

\* The life of the process: start, consumers, sockets, signals.
NextLife ==
  \/ InitializeDatabase
  \/ InitializeRedis
  \/ InitializeRabbitMQ
  \/ Listen
  \/ Initialize
  \/ \E tok \in ValidTokens : Connect(tok)
  \/ \E c \in Conns, r \in Rooms : JoinRoomEvent(c, r)
  \/ \E c \in Conns : Disconnect(c)
  \/ \E q \in ConsumedQueues, body \in Bodies, cbOk \in BOOLEAN : Consume(q, body, cbOk)
  \/ \E sig \in Signals : Signal(sig)
  \/ \E l \in Links, ok \in BOOLEAN, crash \in BOOLEAN : CloseDone(l, ok, crash)

SpecLife == Init /\ [][NextLife]_vars

\* ------------------------------------------------------------------------
\* Properties
\* ------------------------------------------------------------------------
SocketSteps == {"connection", "join_room", "leave_room", "typing_start",
                "typing_stop", "send_message", "send_message done", "disconnect"}

MessagePubs == {"room:{roomId}", "message_processing", "message_logging"}

\* C1: a socket exists, is registered, has a presence update, is subscribed
\* to a group or has an event processed only if the token presented at its
\* handshake was verified; a handshake without token or with a token that
\* fails verification is refused and leaves no socket.
C1_RefusedHandshakeLeavesNothing ==
  /\ \A c \in Conns : conn[c].state # "idle" => conn[c].tok = "valid"
  /\ \A p \in connectedUsers : conn[p[2]].tok = "valid"
  /\ \A op \in statusOps : conn[op.conn].tok = "valid"
  /\ \A r \in Rooms : \A c \in groups[r] : conn[c].tok = "valid"
  /\ \A i \in 1..Len(wsPending) : conn[wsPending[i].conn].tok = "valid"
  /\ out.op \in SocketSteps => conn[out.conn].tok = "valid"
  /\ out.op = "handshake" =>
       /\ out.result = "refused"
       /\ out.conn = NoConn
       /\ out.dl = NoDelivery
       /\ out.pubs = {}
  /\ out.op \in {"handshake", "connection"} /\ out.tok # "valid" => out.op = "handshake"

C1_Witness ==
  /\ out.op = "handshake"
  /\ out.tok = "expired"
  /\ \E c \in Conns : conn[c].state = "open" /\ \E r \in Rooms : c \in groups[r]

\* C2: every connection the handshake accepts is bound to an identity that
\* exists in the user store at handshake time.
C2_AcceptedIdentityExists ==
  out.op = "connection" => out.user \in users

\* C3: every subscribed connection was authenticated, and join_room
\* subscribes a connection only when its identity is a persisted member of
\* the room.
C3_JoinOnlyMembers ==
  /\ \A r \in Rooms : \A c \in groups[r] : conn[c].tok = "valid"
  /\ out.op = "join_room" =>
       rooms[out.room].exists /\ Includes(rooms[out.room].members, out.user)

\* The sender's own connection: the emitting socket on the real-time path,
\* the sockets of the sending identity on the HTTP path.
SenderConns ==
  IF out.conn # NoConn THEN {out.conn}
  ELSE {c \in Conns : conn[c].state = "open" /\ conn[c].userId = out.user}

\* C4: on every send path the new_message broadcast of a successful send is
\* not delivered to the sender's own connection.
C4_NoEcho ==
  out.ev = "new_message" => \A c \in SenderConns : out.dl[c] = 0

\* C5: every successful send delivers exactly one new_message to each
\* connection that is subscribed to the room (joined, and neither left nor
\* disconnected) and belongs to another identity than the sender.
C5_ExactlyOnceToSubscribers ==
  out.ev = "new_message" =>
    \A c \in groups[out.room] : conn[c].userId # out.user => out.dl[c] = 1

C5_Witness ==
  /\ out.ev = "new_message"
  /\ \E c \in groups[out.room] :
       /\ conn[c].userId # out.user
       /\ Includes(rooms[out.room].members, conn[c].userId)
       /\ out.dl[c] = 1

\* C6: on the server started by App.start, a successful POST /messages is
\* broadcast through the socket server to every subscribed connection of the
\* other members.
C6_RestSendReachesSubscribers ==
  out.op = "POST /messages done" /\ out.result = "201" =>
    /\ out.ev = "new_message"
    /\ \A c \in groups[out.room] : conn[c].userId # out.user => out.dl[c] = 1

\* C7: a closed connection is in no group and not in the registry from the
\* state its disconnect produces on, no event is delivered to it, and a
\* new_message broadcast still reaches every remaining subscriber of the room.
C7_DisconnectRemovesEverywhere ==
  /\ \A c \in Conns : conn[c].state = "closed" =>
       /\ c \notin MapValues(connectedUsers)
       /\ \A r \in Rooms : c \notin groups[r]
       /\ out.dl[c] = 0
  /\ out.ev = "new_message" /\ out.result \in {"ok", "201"} =>
       \A c \in groups[out.room] \ {out.conn} : out.dl[c] >= 1

C7_Witness ==
  /\ \E c \in Conns : conn[c].state = "closed"
  /\ out.ev = "new_message"
  /\ \E d \in Conns : conn[d].state = "open" /\ out.dl[d] = 1

\* C8: registering a socket leaves lookup(identity) at that socket, whatever
\* was registered before; unregistering leaves lookup(identity) empty; the
\* registry never holds two entries for one identity.
C8_LastWriterWins ==
  [][ /\ \A c \in Conns :
           conn[c].state = "idle" /\ conn'[c].state = "open" =>
             MapGet(connectedUsers', conn'[c].userId) = c
      /\ \A c \in Conns :
           conn[c].state = "open" /\ conn'[c].state = "closed" =>
             MapGet(connectedUsers', conn[c].userId) = NoConn
      /\ \A u \in Users : Cardinality({p \in connectedUsers' : p[1] = u}) <= 1
    ]_vars

C8_Witness ==
  \E c, d \in Conns :
    /\ c < d
    /\ conn[c].state = "open" /\ conn[d].state = "open"
    /\ conn[c].userId = conn[d].userId
    /\ MapGet(connectedUsers, conn[d].userId) = d

\* C9: an unregister that finds no registry entry for the identity causes no
\* presence change to be published.
C9_UnregisterAbsentIsSilent ==
  out.op = "presence" /\ ~out.online /\ out.pubs # {} => out.entry

\* C10: new_message is broadcast, and the pub/sub topic and the queues are
\* published to, only for a message that was persisted.
C10_BroadcastAfterPersist ==
  (out.ev = "new_message" \/ out.pubs \cap MessagePubs # {}) => out.persisted

\* C11: a failed publish to the pub/sub topic or to a queue during a send
\* never fails the send (no error answer, no error event) and never prevents
\* the new_message broadcast to the room group.
C11_PublishFailureSwallowed ==
  out.pubFail # {} =>
    /\ out.result \in {"ok", "201"}
    /\ out.ev # "error"
    /\ ioInit => out.ev = "new_message"

\* C12: on every send path a send whose content length is outside 1..2000
\* or whose messageType is present and not text, image or file ends with a
\* validation error, and nothing is persisted, broadcast or published for it.
C12_InvalidInputRejected ==
  /\ out.op \in {"send_message done", "POST /messages", "POST /messages done"}
  /\ \/ out.input.len < 1
     \/ out.input.len > 2000
     \/ out.input.messageType \notin {"absent", "text", "image", "file"}
  => /\ out.result = "400 Validation failed"
     /\ ~out.persisted
     /\ out.ev # "new_message"
     /\ out.pubs = {}

\* The requests that pass through authenticateToken, and its refusals.
GatedOps == {"POST /messages", "POST /rooms", "PUT /rooms", "DELETE /rooms",
             "POST /rooms/join", "POST /rooms/leave"}
Unauthorized == {"401 Access token required", "401 Invalid token",
                 "401 User not found"}

C15_LeaveRoomFrame ==
  [][ out'.op = "leave_room" =>
        /\ groups'[out'.room] = groups[out'.room] \ {out'.conn}
        /\ \A x \in Rooms \ {out'.room} : groups'[x] = groups[x]
        /\ out'.ev = "user_left"
        /\ \A d \in Conns :
             out'.dl[d] = IF d \in groups'[out'.room] THEN 1 ELSE 0
        /\ rooms' = rooms
        /\ connectedUsers' = connectedUsers
        /\ conn' = conn
    ]_vars

C15_Witness ==
  /\ out.op = "leave_room"
  /\ out.conn \notin groups[out.room]
  /\ \E x \in Rooms \ {out.room} : out.conn \in groups[x]
  /\ \E d \in groups[out.room] : out.dl[d] = 1
  /\ Includes(rooms[out.room].members, out.user)
  /\ MapGet(connectedUsers, out.user) = out.conn

C17_SenderOnly ==
  [][ /\ out'.op \in {"PUT /messages", "DELETE /messages"}
      /\ out'.result \notin Unauthorized
      /\ out'.result # "400 Validation failed"
      /\ ~messages[out'.msg].exists \/ messages[out'.msg].sender # out'.user
      => /\ out'.result =
              IF ~messages[out'.msg].exists THEN "Message not found"
              ELSE IF out'.op = "PUT /messages" THEN "You can only edit your own messages"
              ELSE "You can only delete your own messages"
         /\ messages' = messages
         /\ out'.ev = "none"
         /\ out'.dl = NoDelivery
         /\ out'.pubs = {}
    ]_vars

C17_Witness ==
  /\ out.op = "PUT /messages"
  /\ out.result = "You can only edit your own messages"
  /\ messages[out.msg].exists
  /\ messages[out.msg].sender # out.user
  /\ messages[out.msg].content # out.input.len
  /\ Includes(rooms[messages[out.msg].room].members, out.user)

\* C18: a successful PUT /messages/{id} emits message_edited, and a
\* successful DELETE /messages/{id} emits message_deleted, once to every
\* connection subscribed to the room of the message.
C18_EditDeleteBroadcast ==
  out.op \in {"PUT /messages", "DELETE /messages"} /\ out.result = "200" =>
    /\ out.persisted
    /\ out.ev = IF out.op = "PUT /messages" THEN "message_edited" ELSE "message_deleted"
    /\ \A c \in groups[out.room] : out.dl[c] = 1

\* The durable work queues the message mutations publish to.
DurableQueues == {"message_processing", "message_logging"}

\* C19: a successful message creation and a successful message edit each
\* hand a task to a durable queue; a successful message deletion publishes
\* on room:{roomId} and hands nothing to a durable queue.  A publish counts
\* whether it went through or failed and was logged.
C19_QueueAsymmetry ==
  /\ out.op = "POST /messages done" /\ out.result = "201" =>
       (out.pubs \cup out.pubFail) \cap DurableQueues # {}
  /\ out.op = "PUT /messages" /\ out.result = "200" =>
       (out.pubs \cup out.pubFail) \cap DurableQueues # {}
  /\ out.op = "DELETE /messages" /\ out.result = "200" =>
       /\ "room:{roomId}" \in out.pubs \cup out.pubFail
       /\ (out.pubs \cup out.pubFail) \cap DurableQueues = {}

\* C20: the presence update of a registration delivers user_online, and the
\* presence update of an unregistration delivers user_offline, to every open
\* connection of the other identities.
C20_PresenceBroadcast ==
  out.op = "presence" /\ out.result = "ok" =>
    /\ out.ev = IF out.online THEN "user_online" ELSE "user_offline"
    /\ \A c \in Conns :
         conn[c].state = "open" /\ conn[c].userId # out.user => out.dl[c] = 1

\* C21: a typing_start or typing_stop of a connection that is not in the
\* room's group delivers user_typing to nobody; from a group member it
\* delivers one user_typing to every other member and none to the sender;
\* it persists and publishes nothing.
C21_TypingOnlyFromMembers ==
  out.op \in {"typing_start", "typing_stop"} =>
    /\ out.conn \notin groups[out.room] => out.dl = NoDelivery
    /\ out.conn \in groups[out.room] =>
         \A d \in Conns :
           out.dl[d] = IF d \in groups[out.room] \ {out.conn} THEN 1 ELSE 0
    /\ ~out.persisted
    /\ out.pubs = {}

\* C22: a send_message that fails emits one error event to the connection
\* that sent it and to no other, and leaves every connection as open,
\* registered and subscribed as it was.
C22_ErrorKeepsConnection ==
  [][ out'.op = "send_message done" /\ out'.result = "failed" =>
        /\ out'.ev = "error"
        /\ \A d \in Conns :
             out'.dl[d] = IF d = out'.conn /\ conn[d].state = "open" THEN 1 ELSE 0
        /\ conn' = conn
        /\ connectedUsers' = connectedUsers
        /\ groups' = groups
    ]_vars

C22_Witness ==
  /\ out.op = "send_message done"
  /\ out.ev = "error"
  /\ conn[out.conn].state = "open"
  /\ out.dl[out.conn] = 1
  /\ MapGet(connectedUsers, out.user) = out.conn
  /\ out.conn \in groups[out.room]
  /\ \E d \in groups[out.room] \ {out.conn} : out.dl[d] = 0

\* C23: the events of one connection take effect in receipt order: a
\* send_message that completes is the oldest one still in progress, and a
\* typing event of a connection is broadcast to a room only when no
\* send_message that the connection emitted before it for that room is
\* still waiting to be broadcast.
C23_ReceiptOrder ==
  [][ /\ out'.op = "send_message done" =>
           /\ out'.conn = Head(wsPending).conn
           /\ wsPending' = Tail(wsPending)
      /\ out'.op \in {"typing_start", "typing_stop"} =>
           \A i \in 1..Len(wsPending) :
             ~(wsPending[i].conn = out'.conn /\ wsPending[i].room = out'.room)
    ]_vars

\* The open connections of an identity.
LiveConns(u) == {c \in Conns : conn[c].state = "open" /\ conn[c].userId = u}

\* C24: an identity with at least one open connection has a registry entry,
\* and the entry points to an open connection; an offline value is stored
\* or published for an identity only when none of its connections is open.
C24_PresenceFollowsConnections ==
  /\ \A u \in Users :
       LiveConns(u) # {} =>
         /\ MapHas(connectedUsers, u)
         /\ MapGet(connectedUsers, u) \in LiveConns(u)
  /\ out.op \in {"setEx", "presence"} /\ ~out.online /\ out.result = "ok" =>
       LiveConns(out.user) = {}

\* C25: on every send path new_message is broadcast, the message persisted
\* and a topic or queue published to only when the sending identity is a
\* persisted member of the room and, on the real-time path, its connection
\* is subscribed to the room's group.
C25_SendOnlyByMembers ==
  \/ out.ev = "new_message"
  \/ out.pubs \cap MessagePubs # {}
  \/ out.op \in {"send_message done", "POST /messages done"} /\ out.persisted
  => /\ rooms[out.room].exists
     /\ Includes(rooms[out.room].members, out.user)
     /\ out.conn # NoConn => out.conn \in groups[out.room]

\* C26: no identity appears more than once in the persisted member list of
\* a room, whatever the interleaving of join and leave requests.
C26_MembersIsSet ==
  \A r \in Rooms :
    \A i, j \in 1..Len(rooms[r].members) :
      rooms[r].members[i] = rooms[r].members[j] => i = j

\* C27: a send that arrives for a room its owner has deleted is refused on
\* arrival: it persists, broadcasts and queues nothing and leaves no request
\* in flight, and the HTTP path answers 'Room not found'; a deleteRoom by
\* anyone but the owner fails and leaves the room in place.
C27_NoSendAfterDelete ==
  [][ /\ (/\ out'.op \in {"send_message", "POST /messages"}
          /\ ~rooms[out'.room].exists)
        => /\ wsPending' = wsPending
           /\ httpPending' = httpPending
           /\ messages' = messages
           /\ out'.pubs = {}
           /\ out'.dl = NoDelivery
           /\ out'.op = "POST /messages" => out'.result = "Room not found"
      /\ (/\ out'.op = "DELETE /rooms"
          /\ rooms[out'.room].exists
          /\ rooms[out'.room].owner # out'.user)
        => /\ rooms' = rooms
           /\ out'.result = "Only room owner can delete the room"
    ]_vars

\* C28: every message delivered to a queue consumer is settled exactly
\* once: acked when the parse and the callback both succeed, nacked without
\* requeue when either throws.
C28_SettledOnce ==
  (out.op = "consume" /\ out.msg # "null") =>
    /\ out.acks + out.nacks = 1
    /\ out.acks = 1 <=> (JsonParse(out.msg) /\ out.result = "returned")
    /\ out.nacks = 1 => ~out.requeue

C28_Witness ==
  /\ out.op = "consume"
  /\ out.msg = "json"
  /\ out.result = "threw"
  /\ out.nacks = 1

\* C29: the process exits with code 0 only when the database, the pub/sub
\* and the queue connection are all closed.
C29_ExitZeroAllClosed ==
  appPc = "exit0" => \A l \in Links : life[l] = "closed"

\* C30: the process starts listening only when the database, then the
\* pub/sub, then the queue client have connected, in that order; the
\* subscription and the consumers are installed only on a connected client
\* of their own; a failed connect ends the process with code 1 and without
\* a listener, and an ended process never listens.
C30_StartupOrder ==
  [][ /\ (appPc' = "listening" /\ appPc # "listening")
        => /\ \A l \in Links : life[l] \in {"open", "closing"}
           /\ life.subscribed
           /\ life.consuming
      /\ (life'.redis = "open" /\ life.redis = "closed")
        => life.db \in {"open", "closing"}
      /\ (life'.queue = "open" /\ life.queue = "closed")
        => /\ life.db \in {"open", "closing"}
           /\ life.redis = "open"
      /\ (life'.subscribed /\ ~life.subscribed) => life'.redis = "open"
      /\ (life'.consuming /\ ~life.consuming) => life'.queue = "open"
      /\ (appPc \in {"new", "dbUp", "redisUp"} /\ appPc' \notin {appPc, "killed", "exit0"}
          /\ \E l \in Links : life'[l] = "closed")
        => /\ appPc' \in {"exit1", "dbUp", "redisUp", "queueUp"}
           /\ ~life'.listening
      /\ appPc \in Exited => (appPc' = appPc /\ life'.listening = life.listening)
    ]_vars

C30_Witness ==
  /\ appPc = "listening"
  /\ life.listening
  /\ \A l \in Links : life[l] = "open"
  /\ life.subscribed
  /\ life.consuming

====
